---- MODULE Spec2Model ----
(***************************************************************************)
(* Satellite collision predictor (src/main.py): the propagate / synthesize *)
(* / detect / plot pipeline run by the "Predict Collision" handler, and    *)
(* detect_collisions applied to arbitrary frames.                          *)
(*                                                                         *)
(* Representation.                                                         *)
(*  - An instant is an integer number of clock ticks (TicksPerSecond ticks *)
(*    per second); a "time" key is the instant formatted with a            *)
(*    seconds-resolution format, i.e. an integer number of seconds.        *)
(*  - A position is a triple <<x, y, z>> of integer kilometres.            *)
(*  - A distance is carried as its exact square (distance_km2): for        *)
(*    non-negative d and t, d < t iff d*d < t*t.                           *)
(*  - A DataFrame is the sequence of its rows.  The fields obj and step of *)
(*    a row and the fields row / ev of an event / merged row are history   *)
(*    fields: no operator of the program model reads them, only the        *)
(*    properties do.                                                       *)
(***************************************************************************)
EXTENDS Integers, Sequences, FiniteSets, TLC

\* ---- Parameters (src/main.py:12-13) ----
COLLISION_THRESHOLD_KM == 5
\* 144 in the source; scaled down so that the catalog can be enumerated.
PROPAGATION_STEPS == 2
\* timedelta(minutes=10 * i)
STEP_MINUTES == 10
\* max_sats (20 in the source), scaled down.
MaxSats == 2

\* ---- Bounds of the model ----
TicksPerSecond == 2
MaxClock == 3
MaxRows == 2

StepTicks == STEP_MINUTES * 60 * TicksPerSecond

\* ---- Positions used as inputs ----
Origin == <<0, 0, 0>>
Near == <<2, 2, 2>>
OnThreshold == <<3, 4, 0>>
Far == <<6, 0, 0>>

Ok(km) == [ok |-> TRUE, km |-> km]
Raises == [ok |-> FALSE, km |-> Origin]

\* An element set is modelled by the table of what sat.at(t) yields, by
\* phase of t: a position, or an exception.
TrackA == << Ok(Near), Ok(Near), Ok(Far), Ok(Near), Ok(OnThreshold), Ok(Far), Ok(Near) >>
TrackB == << Raises, Ok(Near), Ok(Far), Raises, Raises, Ok(Origin), Ok(Near) >>
TrackC == << Ok(Far), Ok(Far), Ok(OnThreshold), Ok(Far), Ok(Far), Ok(Near), Ok(Far) >>
Tracks == {TrackA, TrackB, TrackC}

CatalogNames == {"SAT_A", "SAT_B"}
NameInputs == {"NEW_SAT", "SAT_A"}
\* The coordinates the user submits (whatever default the sidebar offered).
CoordInputs == {Origin, Near}
\* The threshold is a module-level parameter, 5.0 in the source; 0 is the
\* boundary setting.
Thresholds == {0, COLLISION_THRESHOLD_KM}

\* What download_and_load_satellites can return: at most max_sats
\* (name, sat) pairs, possibly none.
Catalogs == UNION { [1..n -> [name : CatalogNames, sat : Tracks]] : n \in 0..MaxSats }

\* ---- skyfield ----
\* sat.at(t).position.km : a deterministic function of the element set and
\* the instant, which may raise.
at(sat, t) == sat[(t % Len(sat)) + 1]

\* t.utc_strftime('%Y-%m-%d %H:%M:%S') : the instant rounded to the nearest
\* second (string order of the keys is the order of these integers).
utc_strftime(t) == (2 * t + TicksPerSecond) \div (2 * TicksPerSecond)

\* times = [ts.utc(now + timedelta(minutes=10 * i)) for i in range(PROPAGATION_STEPS)]
TimeGrid(now) == [i \in 1..PROPAGATION_STEPS |-> now + StepTicks * (i - 1)]

FormattedGrid(now) == [i \in 1..PROPAGATION_STEPS |-> utc_strftime(TimeGrid(now)[i])]

Record(name, time, km, obj, step) ==
    [satellite |-> name, time |-> time, x_km |-> km[1], y_km |-> km[2], z_km |-> km[3],
     obj |-> obj, step |-> step]

\* ---- propagate_satellites ----
\* Faulty variant: an exception at one instant abandons the rest of the object's
\* instants (break instead of continue).
RECURSIVE propagate_times_break(_, _, _, _, _)
propagate_times_break(name, sat, k, times, i) ==
    IF i > Len(times) THEN <<>>
    ELSE IF at(sat, times[i]).ok
         THEN << Record(name, utc_strftime(times[i]), at(sat, times[i]).km, k, i) >>
              \o propagate_times_break(name, sat, k, times, i + 1)
         ELSE <<>>

\* The inner loop: for t in times (try: append / except: warning, continue).
RECURSIVE propagate_times(_, _, _, _, _)
propagate_times(name, sat, k, times, i) ==
    IF i > Len(times) THEN <<>>
    ELSE (IF at(sat, times[i]).ok
          THEN << Record(name, utc_strftime(times[i]), at(sat, times[i]).km, k, i) >>
          ELSE <<>>)
         \o propagate_times(name, sat, k, times, i + 1)

\* The outer loop: for name, sat in satellites.
RECURSIVE propagate_records(_, _, _)
propagate_records(satellites, times, k) ==
    IF k > Len(satellites) THEN <<>>
    ELSE propagate_times(satellites[k].name, satellites[k].sat, k, times, 1)
         \o propagate_records(satellites, times, k + 1)

propagate_satellites(satellites, now) == propagate_records(satellites, TimeGrid(now), 1)

\* st.warning(f"Error propagating {name} at {t}") : one per failed sample.
propagate_warnings(satellites, now) ==
    { <<k, i>> \in (1..Len(satellites)) \X (1..PROPAGATION_STEPS) :
        ~at(satellites[k].sat, TimeGrid(now)[i]).ok }

\* ---- create_custom_satellite ----
\* Faulty variant: the loop stops one instant short.
create_custom_satellite_short(name, km, now) ==
    [i \in 1..(PROPAGATION_STEPS - 1) |-> Record(name, utc_strftime(TimeGrid(now)[i]), km, 0, i)]

create_custom_satellite(name, km, now) ==
    [i \in 1..PROPAGATION_STEPS |-> Record(name, utc_strftime(TimeGrid(now)[i]), km, 0, i)]

\* ---- detect_collisions ----
Pos(row) == <<row.x_km, row.y_km, row.z_km>>

Sq(n) == n * n

\* scipy euclidean(pos1, pos2), squared.
euclidean2(u, v) == Sq(u[1] - v[1]) + Sq(u[2] - v[2]) + Sq(u[3] - v[3])

\* Faulty variant: <= in place of <.
BelowThresholdInclusive(dist2, threshold) == dist2 <= Sq(threshold)

\* dist < COLLISION_THRESHOLD_KM
BelowThreshold(dist2, threshold) == dist2 < Sq(threshold)

Min(S) == CHOOSE m \in S : \A n \in S : m <= n
Max(S) == CHOOSE m \in S : \A n \in S : m >= n

\* Faulty variant: groups visited in descending key order.
RECURSIVE GroupKeysDescending(_)
GroupKeysDescending(S) ==
    IF S = {} THEN <<>> ELSE << Max(S) >> \o GroupKeysDescending(S \ {Max(S)})

\* df.groupby("time") iterates the groups in ascending key order.
RECURSIVE GroupKeys(_)
GroupKeys(S) ==
    IF S = {} THEN <<>> ELSE << Min(S) >> \o GroupKeys(S \ {Min(S)})

Indices(df) == [j \in 1..Len(df) |-> j]

\* The rows of one group, in frame order (as indices into the frame).
Group(df, time) == SelectSeq(Indices(df), LAMBDA j : df[j].time = time)

CollisionRecord(time, new_sat_name, row, dist2, j) ==
    [time |-> time, sat1 |-> new_sat_name, sat2 |-> row.satellite,
     distance_km2 |-> dist2, row |-> j]

\* Faulty variant: only the first object under the threshold is reported.
RECURSIVE scan_others_first(_, _, _, _, _, _, _)
scan_others_first(df, others, n, time, new_sat_name, pos1, threshold) ==
    IF n > Len(others) THEN <<>>
    ELSE IF BelowThreshold(euclidean2(pos1, Pos(df[others[n]])), threshold)
         THEN << CollisionRecord(time, new_sat_name, df[others[n]],
                                 euclidean2(pos1, Pos(df[others[n]])), others[n]) >>
         ELSE scan_others_first(df, others, n + 1, time, new_sat_name, pos1, threshold)

\* for _, row in others.iterrows()
RECURSIVE scan_others(_, _, _, _, _, _, _)
scan_others(df, others, n, time, new_sat_name, pos1, threshold) ==
    IF n > Len(others) THEN <<>>
    ELSE (IF BelowThreshold(euclidean2(pos1, Pos(df[others[n]])), threshold)
          THEN << CollisionRecord(time, new_sat_name, df[others[n]],
                                  euclidean2(pos1, Pos(df[others[n]])), others[n]) >>
          ELSE <<>>)
         \o scan_others(df, others, n + 1, time, new_sat_name, pos1, threshold)

\* The body of "for time, group in grouped".
group_collisions(df, time, new_sat_name, threshold) ==
    LET group == Group(df, time)
        new_sat == SelectSeq(group, LAMBDA j : df[j].satellite = new_sat_name)
        others == SelectSeq(group, LAMBDA j : df[j].satellite # new_sat_name)
    IN  IF new_sat = <<>> THEN <<>>
        ELSE scan_others(df, others, 1, time, new_sat_name, Pos(df[new_sat[1]]), threshold)

RECURSIVE detect_groups(_, _, _, _, _)
detect_groups(df, keys, g, new_sat_name, threshold) ==
    IF g > Len(keys) THEN <<>>
    ELSE group_collisions(df, keys[g], new_sat_name, threshold)
         \o detect_groups(df, keys, g + 1, new_sat_name, threshold)

\* A frame built from no records has no "time" column: groupby raises
\* KeyError, which the except clause reports and turns into an empty result.
detect_raises(df) == df = <<>>

detect_collisions(df, new_sat_name, threshold) ==
    IF detect_raises(df) THEN <<>>
    ELSE detect_groups(df, GroupKeys({df[j].time : j \in 1..Len(df)}), 1,
                       new_sat_name, threshold)

\* ---- plot_3d ----
\* df["satellite"].unique() : names in order of first appearance.
RECURSIVE unique(_, _)
unique(df, j) ==
    IF j > Len(df) THEN <<>>
    ELSE (IF \E h \in 1..(j - 1) : df[h].satellite = df[j].satellite
          THEN <<>> ELSE << df[j].satellite >>)
         \o unique(df, j + 1)

MergedRecord(collision, row, n) ==
    [time |-> collision.time, sat2 |-> collision.sat2,
     x_km |-> row.x_km, y_km |-> row.y_km, z_km |-> row.z_km,
     obj |-> row.obj, ev |-> n]

\* pd.merge(collision_df, df, left_on=["time", "sat2"], right_on=["time", "satellite"])
\* : an inner join, in the order of the left rows.
RECURSIVE merge(_, _, _)
merge(collision_df, df, n) ==
    IF n > Len(collision_df) THEN <<>>
    ELSE LET matches == SelectSeq(Indices(df),
                           LAMBDA j : /\ df[j].time = collision_df[n].time
                                      /\ df[j].satellite = collision_df[n].sat2)
         IN  [m \in 1..Len(matches) |-> MergedRecord(collision_df[n], df[matches[m]], n)]
             \o merge(collision_df, df, n + 1)

EmptyFigure == [traces |-> <<>>, markers |-> <<>>, hovertext |-> <<>>]

plot_3d(df, collision_df) ==
    IF df = <<>> THEN EmptyFigure
    ELSE [traces |-> unique(df, 1),
          markers |-> IF collision_df = <<>> THEN <<>> ELSE merge(collision_df, df, 1),
          hovertext |-> [n \in 1..Len(collision_df) |->
                            <<collision_df[n].sat2, collision_df[n].time>>]]


\* ---- State ----
VARIABLES
    clock,          \* the wall clock (datetime.now), in ticks
    pc,             \* position of the predict handler
    rerun,          \* TRUE in the second run of the script
    cache,          \* st.cache_resource of download_and_load_satellites
    new_sat_name,   \* sidebar inputs
    coords,
    threshold,      \* the collision threshold in force
    existing_sats,
    now_existing,   \* "now" as read by propagate_satellites
    now_new,        \* "now" as read by create_custom_satellite
    times_existing, \* the formatted grid built by propagate_satellites
    times_new,      \* the formatted grid built by create_custom_satellite
    df_existing,
    df_new,
    full_df,
    collisions,
    fig,
    st_errors,
    st_warnings,
    calls,          \* history: the functions the handler has called, in order
    prev            \* history: the outputs of the previous run

vars == <<clock, pc, rerun, cache, new_sat_name, coords, threshold, existing_sats,
          now_existing, now_new, times_existing, times_new, df_existing, df_new, full_df, collisions, fig,
          st_errors, st_warnings, calls, prev>>

inputs == <<new_sat_name, coords, threshold>>

NoPrev == [ran |-> FALSE, df_existing |-> <<>>, df_new |-> <<>>, collisions |-> <<>>]

\* The state of a script run before the button handler starts.
FreshRun ==
    /\ existing_sats = <<>>
    /\ now_existing = 0
    /\ now_new = 0
    /\ times_existing = <<>>
    /\ times_new = <<>>
    /\ df_existing = <<>>
    /\ df_new = <<>>
    /\ full_df = <<>>
    /\ collisions = <<>>
    /\ fig = EmptyFigure
    /\ st_errors = {}
    /\ st_warnings = {}
    /\ calls = <<>>

Init ==
    /\ clock = 0
    /\ pc = "load"
    /\ rerun = FALSE
    /\ cache = [filled |-> FALSE, value |-> <<>>]
    /\ new_sat_name \in NameInputs
    /\ coords \in CoordInputs
    /\ threshold \in Thresholds
    /\ prev = NoPrev
    /\ FreshRun

\* ---- The predict handler (src/main.py:207-237) ----
\* Faulty variants of the handler's guards: the emptiness test is dropped.
AfterLoadUnguarded(sats) == "propagate"
AfterPropagateUnguarded(df) == "create"

\* if not existing_sats: st.error(...) else: propagate
AfterLoad(sats) == IF sats = <<>> THEN "done" ELSE "propagate"
\* if df_existing.empty: st.error(...) else: create
AfterPropagate(df) == IF df = <<>> THEN "done" ELSE "create"
\* if df_new.empty: st.error(...) else: detect
AfterCreate(df) == IF df = <<>> THEN "done" ELSE "detect"

\* Time passes.  Only the two reads of datetime.now observe the clock, so
\* it is advanced just before a read.
Tick ==
    /\ pc \in {"propagate", "create"}
    /\ clock < MaxClock
    /\ clock' = clock + 1
    /\ UNCHANGED <<pc, rerun, cache, inputs, existing_sats, now_existing, now_new,
                   times_existing, times_new,
                   df_existing, df_new, full_df, collisions, fig, st_errors,
                   st_warnings, calls, prev>>

\* existing_sats = download_and_load_satellites()
Load ==
    /\ pc = "load"
    /\ \E sats \in (IF cache.filled THEN {cache.value} ELSE Catalogs) :
          /\ existing_sats' = sats
          /\ cache' = [filled |-> TRUE, value |-> sats]
          /\ pc' = AfterLoad(sats)
          /\ st_errors' = IF sats = <<>> THEN st_errors \cup {"No satellites loaded"}
                          ELSE st_errors
    /\ calls' = Append(calls, "load")
    /\ UNCHANGED <<clock, rerun, inputs, now_existing, now_new, times_existing, times_new,
                   df_existing, df_new,
                   full_df, collisions, fig, st_warnings, prev>>

\* df_existing = propagate_satellites(existing_sats, ts)
Propagate ==
    /\ pc = "propagate"
    /\ now_existing' = clock
    /\ times_existing' = FormattedGrid(clock)
    /\ df_existing' = propagate_satellites(existing_sats, clock)
    /\ st_warnings' = propagate_warnings(existing_sats, clock)
    /\ pc' = AfterPropagate(df_existing')
    /\ st_errors' = IF df_existing' = <<>> THEN st_errors \cup {"Failed to propagate"}
                    ELSE st_errors
    /\ calls' = Append(calls, "propagate")
    /\ UNCHANGED <<clock, rerun, cache, inputs, existing_sats, now_new, times_new, df_new,
                   full_df, collisions, fig, prev>>

\* df_new = create_custom_satellite(new_sat_name, x_km, y_km, z_km, ts)
Create ==
    /\ pc = "create"
    /\ now_new' = clock
    /\ times_new' = FormattedGrid(clock)
    /\ df_new' = create_custom_satellite(new_sat_name, coords, clock)
    /\ pc' = AfterCreate(df_new')
    /\ st_errors' = IF df_new' = <<>> THEN st_errors \cup {"Failed to create"}
                    ELSE st_errors
    /\ calls' = Append(calls, "create")
    /\ UNCHANGED <<clock, rerun, cache, inputs, existing_sats, now_existing,
                   times_existing, df_existing, full_df, collisions, fig, st_warnings, prev>>

\* full_df = pd.concat([df_existing, df_new])
\* collisions = detect_collisions(full_df, new_sat_name)
Detect ==
    /\ pc = "detect"
    /\ full_df' = df_existing \o df_new
    /\ collisions' = detect_collisions(full_df', new_sat_name, threshold)
    /\ st_errors' = IF detect_raises(full_df')
                    THEN st_errors \cup {"Error detecting collisions"}
                    ELSE st_errors
    /\ pc' = "plot"
    /\ calls' = Append(calls, "detect")
    /\ UNCHANGED <<clock, rerun, cache, inputs, existing_sats, now_existing, now_new,
                   times_existing, times_new, df_existing, df_new, fig, st_warnings, prev>>

\* st.plotly_chart(plot_3d(full_df, collisions))
Plot ==
    /\ pc = "plot"
    /\ fig' = plot_3d(full_df, collisions)
    /\ pc' = "done"
    /\ calls' = Append(calls, "plot")
    /\ UNCHANGED <<clock, rerun, cache, inputs, existing_sats, now_existing, now_new,
                   times_existing, times_new, df_existing, df_new, full_df, collisions,
                   st_errors, st_warnings,
                   prev>>

\* The button is pressed again with the widgets unchanged: the script runs
\* again from the top; only the resource cache survives.
Rerun ==
    /\ pc = "done"
    /\ ~rerun
    /\ rerun' = TRUE
    /\ prev' = [ran |-> TRUE, df_existing |-> df_existing, df_new |-> df_new,
                collisions |-> collisions]
    /\ pc' = "load"
    /\ existing_sats' = <<>>
    /\ now_existing' = 0
    /\ now_new' = 0
    /\ times_existing' = <<>>
    /\ times_new' = <<>>
    /\ df_existing' = <<>>
    /\ df_new' = <<>>
    /\ full_df' = <<>>
    /\ collisions' = <<>>
    /\ fig' = EmptyFigure
    /\ st_errors' = {}
    /\ st_warnings' = {}
    /\ calls' = <<>>
    /\ UNCHANGED <<clock, cache, inputs>>

Next == Tick \/ Load \/ Propagate \/ Create \/ Detect \/ Plot \/ Rerun

Spec == Init /\ [][Next]_vars

\* ---- detect_collisions and plot_3d called on arbitrary frames ----
FrameTimes == {0, STEP_MINUTES * 60}

FrameRows ==
    { Record(n, t, km, 0, 0) :
        n \in CatalogNames \cup NameInputs, t \in FrameTimes,
        km \in {Origin, Near, OnThreshold} }

Frames == UNION { [1..n -> FrameRows] : n \in 0..MaxRows }

CandidateFrames(name) ==
    UNION { [1..n -> { Record(name, t, Origin, 0, 0) : t \in FrameTimes }] : n \in 0..MaxRows }

InitFrames ==
    /\ clock = 0
    /\ pc = "detect"
    /\ rerun = FALSE
    /\ cache = [filled |-> FALSE, value |-> <<>>]
    /\ new_sat_name \in NameInputs
    /\ coords = Origin
    /\ threshold \in Thresholds
    /\ prev = NoPrev
    /\ existing_sats = <<>>
    /\ now_existing = 0
    /\ now_new = 0
    /\ times_existing = <<>>
    /\ times_new = <<>>
    /\ df_existing \in Frames
    /\ df_new \in CandidateFrames(new_sat_name)
    /\ full_df = <<>>
    /\ collisions = <<>>
    /\ fig = EmptyFigure
    /\ st_errors = {}
    /\ st_warnings = {}
    /\ calls = <<>>

NextFrames == Detect \/ Plot

SpecFrames == InitFrames /\ [][NextFrames]_vars


\* ---- Properties ----
Ran(f) == \E n \in DOMAIN calls : calls[n] = f

\* The rows of the detector's input that carry the candidate's name at a
\* timestamp, and the candidate's sample there (the first of them).
CandidateRows(time) ==
    { j \in DOMAIN full_df : full_df[j].time = time /\ full_df[j].satellite = new_sat_name }

Reference(time) == Pos(full_df[Min(CandidateRows(time))])

\* Row j is another object's sample, at a timestamp where the candidate has
\* a sample, closer to it than the threshold.
Close(j) ==
    /\ full_df[j].satellite # new_sat_name
    /\ CandidateRows(full_df[j].time) # {}
    /\ euclidean2(Reference(full_df[j].time), Pos(full_df[j])) < threshold * threshold

EventsOf(j) == { n \in DOMAIN collisions : collisions[n].row = j }

\* C1: every event returned by detect_collisions has a distance that is
\* non-negative and strictly below the threshold; a pair exactly at the
\* threshold produces no event; with threshold 0 the result is empty.
C1_StrictThreshold ==
    Ran("detect") =>
        /\ \A n \in DOMAIN collisions :
              /\ collisions[n].distance_km2 >= 0
              /\ collisions[n].distance_km2 < threshold * threshold
              /\ collisions[n].distance_km2 =
                    euclidean2(Reference(collisions[n].time), Pos(full_df[collisions[n].row]))
        /\ \A j \in DOMAIN full_df :
              (/\ CandidateRows(full_df[j].time) # {}
               /\ euclidean2(Reference(full_df[j].time), Pos(full_df[j]))
                     = threshold * threshold)
              => EventsOf(j) = {}
        /\ threshold = 0 => collisions = <<>>

\* A run of the detector that reported events and also met a pair exactly
\* at the (positive) threshold.
C1_Witness ==
    /\ Ran("detect")
    /\ collisions # <<>>
    /\ \E j \in DOMAIN full_df :
          /\ full_df[j].satellite # new_sat_name
          /\ CandidateRows(full_df[j].time) # {}
          /\ euclidean2(Reference(full_df[j].time), Pos(full_df[j])) = threshold * threshold

\* The detector's result is exactly one event per close sample of another
\* object, carrying that sample's timestamp, the candidate's name, the
\* object's name and the distance, and nothing else.
OneEventPerCloseSample ==
    /\ \A j \in DOMAIN full_df :
          Cardinality(EventsOf(j)) = IF Close(j) THEN 1 ELSE 0
    /\ \A n \in DOMAIN collisions :
          /\ collisions[n].row \in DOMAIN full_df
          /\ collisions[n].time = full_df[collisions[n].row].time
          /\ collisions[n].sat1 = new_sat_name
          /\ collisions[n].sat2 = full_df[collisions[n].row].satellite
          /\ collisions[n].distance_km2 =
                euclidean2(Reference(collisions[n].time), Pos(full_df[collisions[n].row]))

CandidateSeriesEmpty == \A j \in DOMAIN full_df : full_df[j].satellite # new_sat_name

C3_SameGrid ==
    Ran("create") =>
        /\ Len(times_new) = Len(times_existing)
        /\ \A i \in DOMAIN times_new : times_new[i] = times_existing[i]

\* C4 as stated: a second run with the same element sets and the same
\* candidate inputs produces the same series and the same events.
C4_Deterministic ==
    (pc = "done" /\ rerun /\ prev.ran) =>
        /\ df_existing = prev.df_existing
        /\ df_new = prev.df_new
        /\ collisions = prev.collisions

\* C5: create_custom_satellite returns PROPAGATION_STEPS samples, one per
\* grid instant in grid order, all with the candidate's name and the input
\* coordinate.
C5_FixedPoint ==
    Ran("create") =>
        /\ Len(df_new) = PROPAGATION_STEPS
        /\ \A i \in DOMAIN df_new :
              /\ df_new[i].satellite = new_sat_name
              /\ Pos(df_new[i]) = coords
              /\ df_new[i].time = utc_strftime(now_new + (i - 1) * StepTicks)
        /\ \A i, h \in DOMAIN df_new : i < h => df_new[i].time < df_new[h].time

C5_Witness ==
    /\ Ran("create")
    /\ now_new > 0
    /\ coords # Origin

\* The sample of catalog object k at grid index i, as propagate_satellites
\* computed it.
Sample(k, i) == at(existing_sats[k].sat, now_existing + (i - 1) * StepTicks)

RowsOf(k, i) == { j \in DOMAIN df_existing : df_existing[j].obj = k /\ df_existing[j].step = i }

\* C6: a failure at one instant of one object omits exactly that sample:
\* every other sample of every object is produced once, in catalog and grid
\* order, with the grid's timestamp; in detection the object has no event
\* at the omitted instant and its remaining samples are compared like any
\* other sample.
C6_FailureIsolated ==
    /\ Ran("propagate") =>
          /\ \A k \in DOMAIN existing_sats : \A i \in 1..PROPAGATION_STEPS :
                /\ Cardinality(RowsOf(k, i)) = IF Sample(k, i).ok THEN 1 ELSE 0
                /\ (<<k, i>> \in st_warnings) <=> ~Sample(k, i).ok
          /\ \A j \in DOMAIN df_existing :
                /\ df_existing[j].obj \in DOMAIN existing_sats
                /\ df_existing[j].step \in 1..PROPAGATION_STEPS
                /\ df_existing[j].satellite = existing_sats[df_existing[j].obj].name
                /\ df_existing[j].time =
                      utc_strftime(now_existing + (df_existing[j].step - 1) * StepTicks)
                /\ Pos(df_existing[j]) = Sample(df_existing[j].obj, df_existing[j].step).km
          /\ \A j, h \in DOMAIN df_existing :
                j < h => \/ df_existing[j].obj < df_existing[h].obj
                         \/ /\ df_existing[j].obj = df_existing[h].obj
                            /\ df_existing[j].step < df_existing[h].step
    /\ Ran("detect") =>
          /\ \A n \in DOMAIN collisions :
                LET r == full_df[collisions[n].row]
                IN  r.obj # 0 => /\ Sample(r.obj, r.step).ok
                                 /\ collisions[n].time = r.time
          /\ \A j \in DOMAIN df_existing :
                /\ full_df[j] = df_existing[j]
                /\ Cardinality(EventsOf(j)) = IF Close(j) THEN 1 ELSE 0

\* An object lost one sample and is reported at its other instant, and
\* another object kept all its samples.
C6_Witness ==
    /\ Ran("detect")
    /\ \E k \in DOMAIN existing_sats : \E i, h \in 1..PROPAGATION_STEPS :
          /\ ~Sample(k, i).ok
          /\ Sample(k, h).ok
          /\ \E n \in DOMAIN collisions :
                full_df[collisions[n].row].obj = k /\ full_df[collisions[n].row].step = h
    /\ \E k \in DOMAIN existing_sats : \A i \in 1..PROPAGATION_STEPS : Sample(k, i).ok

MarkersOf(n) == { m \in DOMAIN fig.markers : fig.markers[m].ev = n }

\* C7 as stated: the report holds every event passed to plot_3d exactly
\* once, with the position of the catalog sample the event is about.
C7_EveryEventOnce ==
    Ran("plot") =>
        \A n \in DOMAIN collisions :
            /\ Cardinality(MarkersOf(n)) = 1
            /\ \A m \in MarkersOf(n) :
                  <<fig.markers[m].x_km, fig.markers[m].y_km, fig.markers[m].z_km>>
                     = Pos(full_df[collisions[n].row])

\* C8: events are ordered by timestamp and, within a timestamp, by the
\* order of the objects' samples in the input series.
C8_EventOrder ==
    Ran("detect") =>
        \A a, b \in DOMAIN collisions :
            a < b => \/ collisions[a].time < collisions[b].time
                     \/ /\ collisions[a].time = collisions[b].time
                        /\ collisions[a].row < collisions[b].row
                        /\ full_df[collisions[a].row].obj <= full_df[collisions[b].row].obj

\* Two events at one timestamp followed by an event at a later one, from a
\* frame in which the later timestamp's row comes first.
C8_Witness ==
    /\ Ran("detect")
    /\ \E a, b, c \in DOMAIN collisions :
          /\ a < b /\ b < c
          /\ collisions[a].time = collisions[b].time
          /\ collisions[b].time < collisions[c].time
          /\ collisions[c].row < collisions[b].row

Before(f, g) == \E a, b \in DOMAIN calls : a < b /\ calls[a] = f /\ calls[b] = g

\* C9: detect_collisions is called only after propagate_satellites and
\* create_custom_satellite have returned, and only with a non-empty
\* catalog, catalog series and candidate series; a run whose catalog or
\* catalog series is empty ends with nothing detected and nothing plotted.
C9_Barrier ==
    /\ (pc = "detect" \/ Ran("detect")) =>
          /\ existing_sats # <<>>
          /\ df_existing # <<>>
          /\ df_new # <<>>
          /\ Ran("propagate") /\ Ran("create")
    /\ Ran("detect") => Before("propagate", "detect") /\ Before("create", "detect")
    /\ (pc = "done" /\ (existing_sats = <<>> \/ df_existing = <<>>)) =>
          /\ ~Ran("create") /\ ~Ran("detect") /\ ~Ran("plot")
          /\ df_new = <<>>
          /\ full_df = <<>>
          /\ collisions = <<>>
          /\ fig = EmptyFigure
          /\ st_errors # {}

\* A run in which every sample of a non-empty catalog failed.
C9_Witness ==
    /\ pc = "done"
    /\ existing_sats # <<>>
    /\ Ran("propagate")
    /\ df_existing = <<>>

\* C10 as stated: at each timestamp of the candidate's synthesized series
\* every catalog sample is compared against the synthesized sample, and no
\* event names the candidate as the other object.
C10_ReferenceIsCandidate ==
    Ran("detect") =>
        /\ \A n \in DOMAIN collisions : collisions[n].sat2 # collisions[n].sat1
        /\ \A j \in DOMAIN df_existing :
              LET own == { i \in DOMAIN df_new : df_new[i].time = df_existing[j].time }
                  near == /\ own # {}
                          /\ euclidean2(coords, Pos(df_existing[j])) < threshold * threshold
              IN  /\ Cardinality(EventsOf(j)) = IF near THEN 1 ELSE 0
                  /\ \A n \in EventsOf(j) :
                        collisions[n].distance_km2 = euclidean2(coords, Pos(df_existing[j]))

====
